---------------------------- MODULE Spec2Model ----------------------------
(***************************************************************************)
(* Model of starlink-coverage (src/main.py): the spherical-cap geometry,   *)
(* the antimeridian-safe footprint rasterizer, the time-stepped coverage   *)
(* accumulation loop of one partition run, and the external merge of the   *)
(* four partitions' histogram files.                                       *)
(*                                                                         *)
(* Numbers are fixed point and fit 32 bits: angles of the geometry kernel  *)
(* are integers in units of 10^-5 radian, sines are scaled by 10^4,        *)
(* longitudes and latitudes are whole degrees, altitudes are whole         *)
(* kilometres, distances are metres.                                       *)
(* The external libraries (skyfield, geog, shapely, h3, numpy) are modelled*)
(* at the call sites of src/main.py by what the calls return or raise.     *)
(***************************************************************************)
EXTENDS Integers, Sequences, FiniteSets, TLC

\* ------------------------------------------------------------------ bounds

\* Largest number of operational satellites in the catalogue.
MaxSats == 2

\* Number of cells of the discrete grid (a belt of cells along the equator).
NumCells == 36

\* ------------------------------------------------------- program constants

\* math.pi, in units of 10^-5 radian.
PI == 314159

\* R_MEAN = 6378.1 km, in tenths of a kilometre.
R_MEAN == 63781

\* The minimum terminal elevation angle passed to calcCapAngle, in degrees.
TERM_ANGLE == 35

\* n_points of get_cell_ids_h3.
N_POINTS == 20

\* H3_RESOLUTION_LEVEL, part of the histogram file's name.
H3_RESOLUTION_LEVEL == 4

\* The simulated window, 1440 minutes, and the number of partitions, 4, of
\* TIME_PER_PROCESS = 1440 // 4.
WINDOW == 1440

PARTITIONS == 4

TIME_PER_PROCESS == WINDOW \div PARTITIONS

\* The partition indices the launcher passes as sys.argv[1].
Processes == 0..(PARTITIONS - 1)

\* ---------------------------------------------------------------- helpers

Abs(x) == IF x < 0 THEN -x ELSE x

\* a / b rounded to the nearest integer, b > 0.
RoundDiv(a, b) == (a + b \div 2) \div b

Range(s) == {s[k] : k \in 1..Len(s)}

Min(S) == CHOOSE x \in S : \A y \in S : x <= y

Max(S) == CHOOSE x \in S : \A y \in S : x >= y

\* ------------------------------------------------------- geometry kernel

\* sin of 0..90 whole degrees, scaled by 10^4 (math.sin's values, rounded).
SinTable ==
   << 0, 175, 349, 523, 698, 872, 1045, 1219, 1392, 1564, 1736, 1908, 2079,
      2250, 2419, 2588, 2756, 2924, 3090, 3256, 3420, 3584, 3746, 3907, 4067, 4226,
      4384, 4540, 4695, 4848, 5000, 5150, 5299, 5446, 5592, 5736, 5878, 6018, 6157,
      6293, 6428, 6561, 6691, 6820, 6947, 7071, 7193, 7314, 7431, 7547, 7660, 7771,
      7880, 7986, 8090, 8192, 8290, 8387, 8480, 8572, 8660, 8746, 8829, 8910, 8988,
      9063, 9135, 9205, 9272, 9336, 9397, 9455, 9511, 9563, 9613, 9659, 9703, 9744,
      9781, 9816, 9848, 9877, 9903, 9925, 9945, 9962, 9976, 9986, 9994, 9998, 10000 >>

\* sin of a whole number of degrees, scaled by 10^4.
SinDeg(d) ==
   LET a == d % 360 IN
   IF a <= 90 THEN SinTable[a + 1]
   ELSE IF a <= 180 THEN SinTable[180 - a + 1]
   ELSE IF a <= 270 THEN -SinTable[a - 180 + 1]
   ELSE -SinTable[360 - a + 1]

CosDeg(d) == SinDeg(d + 90)

\* to_rads: whole degrees to units of 10^-5 radian.
to_rads(degrees) == (degrees * PI) \div 180

\* to_deg: units of 10^-5 radian to hundredths of a degree.
to_deg(radians) == RoundDiv(radians * 1800, RoundDiv(PI, 10))

\* RIGHT_ANGLE = to_rads(90)
RIGHT_ANGLE == to_rads(90)

\* math.sin of an angle in units of 10^-5 radian, scaled by 10^4: the table
\* entry of the whole degree below, interpolated linearly to the next one.
Sin(x) ==
   LET cd == to_deg(x)
       d  == cd \div 100
       f  == cd % 100
   IN  SinDeg(d) + ((SinDeg(d + 1) - SinDeg(d)) * f) \div 100

\* The largest whole degree d in lo..hi-1 with SinDeg(d) <= v, by bisection
\* (SinDeg(lo) <= v < SinDeg(hi)).
RECURSIVE AsinFloor(_, _, _)
AsinFloor(lo, hi, v) ==
   IF hi - lo <= 1 THEN lo
   ELSE LET mid == (lo + hi) \div 2
        IN  IF SinDeg(mid) <= v THEN AsinFloor(mid, hi, v)
            ELSE AsinFloor(lo, mid, v)

\* math.asin of a value scaled by 10^4 with |value| <= 10^4, in units of
\* 10^-5 radian.
Asin(v) ==
   IF v >= 10000 THEN RIGHT_ANGLE
   ELSE LET d == AsinFloor(-90, 90, v)
            f == ((v - SinDeg(d)) * 100) \div (SinDeg(d + 1) - SinDeg(d))
        IN  ((d * 100 + f) * RoundDiv(PI, 10)) \div 1800

\* The argument of math.asin in calcCapAngle, scaled by 10^4:
\* sin(epsilon + RIGHT_ANGLE) * R_MEAN / (R_MEAN + altitude).
AsinArg(altitude, term_angle) ==
   LET num == Sin(to_rads(term_angle) + RIGHT_ANGLE) * R_MEAN
       den == R_MEAN + 10 * altitude
   IN  IF den > 0 THEN num \div den ELSE -(num \div (-den))

\* math.asin raises ValueError("math domain error") when its argument is
\* outside [-1, 1]; the division raises ZeroDivisionError when
\* R_MEAN + altitude is 0.
CapAngleRaises(altitude, term_angle) ==
   LET num == Sin(to_rads(term_angle) + RIGHT_ANGLE) * R_MEAN
       den == R_MEAN + 10 * altitude
   IN  IF den = 0 THEN "ZeroDivisionError"
       ELSE IF \/ Abs(num) \div Abs(den) > 10000
               \/ Abs(num) \div Abs(den) = 10000 /\ Abs(num) % Abs(den) # 0
            THEN "ValueError"
       ELSE "none"

\* calcCapAngle: the cap angle lambda_FOV / 2, in units of 10^-5 radian. Defined
\* where CapAngleRaises is "none".
calcCapAngle(altitude, term_angle) ==
   LET epsilon    == to_rads(term_angle)
       eta_FOV    == Asin(AsinArg(altitude, term_angle))
       lambda_FOV == 2 * (PI - (epsilon + RIGHT_ANGLE + eta_FOV))
   IN  lambda_FOV \div 2

\* --------------------------------------------------- footprint rasterizer

\* A point is <<lng, lat>>; a ring is a sequence of points.
Lng(pt) == pt[1]

Lat(pt) == pt[2]

\* The grid: cell k of 1..NumCells is centred on the equator at longitude
\* CellLng(k), the cells evenly spaced over (-180, 180).
Cells == 1..NumCells

CellLng(k) == ((2 * k - 1) * 180) \div NumCells - 180

\* np.linspace(0, 360, n_points)[k-1], to the nearest whole degree.
Angles(k) == RoundDiv(360 * (k - 1), N_POINTS - 1)

\* arc_length = R_MEAN * angle, d = arc_length * 1000: metres.
ArcMeters(angle) == (R_MEAN * (angle \div 10)) \div 100

\* geog.propagate(p, angles, d): the N_POINTS points d metres away from
\* (lng, lat) along the angles, measured counter-clockwise from east; the
\* last angle is 360, so the ring is closed. The longitudes are not wrapped
\* into [-180, 180]. A degree of arc is 111.2 km; the cap is small and near
\* the equator, where a step of delta degrees along angle a moves the point
\* by delta*cos(a) in longitude and delta*sin(a) in latitude.
propagate(lng, lat, d) ==
   LET delta == (d * 10) \div 1112     \* thousandths of a degree
   IN  << >> \o [k \in 1..N_POINTS |->
          << lng + RoundDiv(delta * CosDeg(Angles(k)), 10000000),
             lat + RoundDiv(delta * SinDeg(Angles(k)), 10000000) >>]

\* shapely.geometry.Polygon(ring): a linear ring needs at least 4
\* coordinates once closed; with fewer the constructor raises ValueError.
PolygonRaises(ring) ==
   LET m == Len(ring)
       M == IF m > 0 /\ ring[1] # ring[m] THEN m + 1 ELSE m
   IN  m > 0 /\ M < 4

\* Twice the signed area of a closed ring (positive: counter-clockwise).
RECURSIVE SignedArea2(_, _)
SignedArea2(ring, k) ==
   IF k >= Len(ring) THEN 0
   ELSE Lng(ring[k]) * Lat(ring[k + 1]) - Lng(ring[k + 1]) * Lat(ring[k])
        + SignedArea2(ring, k + 1)

Reverse(ring) == << >> \o [k \in 1..Len(ring) |-> ring[Len(ring) + 1 - k]]

\* shapely.geometry.polygon.orient(polygon, 1.0): the exterior ring made
\* counter-clockwise.
orient(ring) == IF SignedArea2(ring, 1) < 0 THEN Reverse(ring) ELSE ring

\* np.interp([x], [xp1, xp2], [fp1, fp2])[0]. numpy does not check that xp
\* increases: with xp1 > xp2 and xp2 < x < xp1 its search places x past the
\* last sample and the result is the right fill value, fp2.
interp(x, xp1, xp2, fp1, fp2) ==
   IF xp1 < xp2 THEN fp1 + RoundDiv((fp2 - fp1) * (x - xp1), xp2 - xp1)
   ELSE fp2

\* The loop of split_antimeridian_polygon from index idx (1-based) on:
\* <<poly1, poly2>> after walking the edges idx .. Len(polygon)-1.
RECURSIVE SplitWalk(_, _, _, _)
SplitWalk(polygon, idx, poly1, poly2) ==
   IF idx > Len(polygon) - 1 THEN <<poly1, poly2>>
   ELSE LET first  == polygon[idx]
            second == polygon[idx + 1]
        IN  IF \/ Lng(first) < 180 /\ Lng(second) > 180
               \/ Lng(first) > 180 /\ Lng(second) < 180
            THEN LET new_lat   == interp(180, Lng(first), Lng(second),
                                         Lat(first), Lat(second))
                     new_point == <<180, new_lat>>
                 IN  SplitWalk(polygon, idx + 1,
                               Append(poly1, new_point), Append(poly2, new_point))
            ELSE IF Lng(first) < 180
            THEN SplitWalk(polygon, idx + 1, Append(poly1, first), poly2)
            ELSE SplitWalk(polygon, idx + 1, poly1, Append(poly2, first))

\* split_antimeridian_polygon(polygon): raised is the exception that leaves
\* the function ("none": it returns (mapping1, mapping2), the two rings).
split_antimeridian_polygon(polygon) ==
   LET walked == SplitWalk(polygon, 1, << >>, << >>)
       poly1  == walked[1]
       poly2  == walked[2]
   IN  IF poly1 = << >> \/ poly2 = << >>
       THEN [raised |-> "IndexError", first |-> << >>, second |-> << >>]
       ELSE LET closed1 == Append(poly1, poly1[1])
                closed2 == Append(poly2, poly2[1])
                poly2_wrapped == << >> \o
                   [k \in 1..Len(closed2) |->
                      << -180 + (Lng(closed2[k]) - 180), Lat(closed2[k]) >>]
            IN  IF PolygonRaises(closed1) \/ PolygonRaises(poly2_wrapped)
                THEN [raised |-> "ValueError", first |-> << >>, second |-> << >>]
                ELSE [raised |-> "none", first |-> closed1,
                      second |-> orient(poly2_wrapped)]

\* h3.polyfill(mapping, H3_RESOLUTION_LEVEL, True): the cells whose centre
\* lies in the polygon, taken here as the ring's bounding box.
polyfill(ring) ==
   LET lngs == {Lng(ring[k]) : k \in 1..Len(ring)}
       lats == {Lat(ring[k]) : k \in 1..Len(ring)}
       west == Min(lngs)
       east == Max(lngs)
   IN  IF Min(lats) <= 0 /\ 0 <= Max(lats)
       THEN {c \in Cells : west <= CellLng(c) /\ CellLng(c) <= east}
       ELSE {}

\* What the libraries do to one satellite's footprint, decided outside the
\* program: "none", or the call that raises.
\*   "polygon"     shapely.geometry.Polygon raises ValueError for the
\*                 footprint's rings (line 188, and lines 170-172 in a split)
\*   "fill"        every h3.polyfill call raises
\*   "fill_second" h3.polyfill of the second ring of a split raises
Faults == {"none", "polygon", "fill", "fill_second"}

\* get_cell_ids_h3(lat, lng, angle) under fault:
\*   raised  the exception that leaves the function, or "none"
\*   failed  an exception was raised inside it (caught or not)
\*   split   the antimeridian path was taken
\*   cells   the set returned (when raised = "none")
\*   out     the lines printed
get_cell_ids_h3(lat, lng, angle, fault) ==
   LET d           == ArcMeters(angle)
       polygon     == propagate(lng, lat, d)
       no_mapping  == fault = "polygon" \/ PolygonRaises(polygon)
       out1        == IF no_mapping
                      THEN << <<"latlng", lat, lng>>, <<"polygon", lat, lng>> >>
                      ELSE << >>
       needs_split == \E k \in 1..Len(polygon) : Lng(polygon[k]) > 180
   IN  IF needs_split
       THEN LET sp == split_antimeridian_polygon(polygon)
            IN  IF sp.raised # "none" \/ fault \in {"polygon", "fill"}
                THEN [raised |-> "none", failed |-> TRUE, split |-> TRUE,
                      cells |-> {},
                      out |-> Append(out1, <<"latlng", lat, lng>>)]
                ELSE IF fault = "fill_second"
                THEN [raised |-> "none", failed |-> TRUE, split |-> TRUE,
                      cells |-> polyfill(sp.first),
                      out |-> Append(out1, <<"latlng", lat, lng>>)]
                ELSE [raised |-> "none", failed |-> no_mapping, split |-> TRUE,
                      cells |-> polyfill(sp.first) \cup polyfill(sp.second),
                      out |-> out1]
       ELSE IF no_mapping
            THEN [raised |-> "UnboundLocalError", failed |-> TRUE,
                  split |-> FALSE, cells |-> {}, out |-> out1]
            ELSE IF fault \in {"fill"}
            THEN [raised |-> "H3Error", failed |-> TRUE, split |-> FALSE,
                  cells |-> {}, out |-> out1]
            ELSE [raised |-> "none", failed |-> FALSE, split |-> FALSE,
                  cells |-> polyfill(polygon), out |-> out1]

\* ------------------------------------------------------------ satellites

\* The satellite position provider (skyfield), outside the program: a
\* catalogue entry circles the equator once in period minutes from lng0
\* (period 0: it stays over lng0), at a fixed altitude; fault is what the
\* libraries do to its footprints. The catalogue holds a healthy satellite
\* on a 95 minute orbit, a stationary one over the antimeridian whose second
\* fill fails, one at altitude 0 (a cap of angle 0), one below the surface
\* (no cap angle), and two whose footprints the libraries reject.
Sat(name, lng0, period, alt, fault) ==
   [name |-> name, lng0 |-> lng0, period |-> period, lat |-> 0, alt |-> alt,
    fault |-> fault]

Catalogue ==
   << Sat("STARLINK-1284", 0, 95, 550, "none"),
      Sat("STARLINK-1285", 179, 0, 550, "fill_second"),
      Sat("STARLINK-1286", 1, 95, 0, "none"),
      Sat("STARLINK-1287", 0, 95, -2000, "none"),
      Sat("STARLINK-1288", 180, 95, 550, "polygon"),
      Sat("STARLINK-1289", 176, 95, 550, "fill") >>

\* The operational satellite lists: the non-empty sublists of the catalogue
\* of at most MaxSats satellites, in catalogue order.
SatLists ==
   LET Pick(S) == [k \in 1..Cardinality(S) |->
                     Catalogue[CHOOSE n \in S :
                        Cardinality({j \in S : j < n}) = k - 1]]
   IN  {Pick(S) : S \in {T \in SUBSET (1..Len(Catalogue)) :
                            T # {} /\ Cardinality(T) <= MaxSats}}

\* A longitude wrapped into (-180, 180].
WrapLng(x) == ((x + 179) % 360) - 179

\* sat.at(time).subpoint(): time is the minute of ts.utc(2020, 6, 21, 0,
\* minute, 0), counted from midnight (minutes above 59 carry into hours).
subpoint(sat, minute) ==
   [latitude  |-> sat.lat,
    longitude |-> WrapLng(sat.lng0 + (IF sat.period = 0 THEN 0
                                      ELSE (360 * minute) \div sat.period)),
    elevation |-> sat.alt]

\* Lines 283-285 for one satellite at one minute: calcCapAngle, then
\* get_cell_ids_h3. raised is the exception that reaches the loop.
Rasterize(sat, minute) ==
   LET sp == subpoint(sat, minute)
       ex == CapAngleRaises(sp.elevation, TERM_ANGLE)
   IN  IF ex # "none"
       THEN [raised |-> ex, failed |-> FALSE, split |-> FALSE, cells |-> {},
             out |-> << >>, cap |-> FALSE]
       ELSE [cap |-> TRUE] @@
            get_cell_ids_h3(sp.latitude, sp.longitude,
                            calcCapAngle(sp.elevation, TERM_ANGLE), sat.fault)

\* ---------------------------------------------------------------- state

VARIABLES
   op_sats,       \* the operational satellites (fixed during a run)
   process,       \* int(sys.argv[1])
   pc,            \* "idle", "step", "sats", "accumulate", "write", "done", "aborted"
   i,             \* the loop index of line 276
   time,          \* the minute of the current step
   satIdx,        \* the position in subpoints.items()
   coverage_set,  \* the step's set of covered cells
   pending,       \* the cells of coverage_set line 290 has still to visit
   coverage,      \* the histogram: a function on its keys
   files,         \* the histogram files on disk: partition index -> lines
   stdout,        \* the lines printed
   error,         \* the uncaught exception that ended the run, or "none"
   times,         \* history: the minutes passed to ts.utc, in order
   unions,        \* history: coverage_set at the end of each satellite loop
   stepBase,      \* history: the histogram when the current step began
   merged,        \* the external merge: the sum of the files merged so far
   mergedFrom,    \* the external merge: the partitions merged so far
   windows        \* history: partition index -> the minutes its run simulated

vars == << op_sats, process, pc, i, time, satIdx, coverage_set, pending,
           coverage, files, stdout, error, times, unions, stepBase, merged,
           mergedFrom, windows >>

\* The empty histogram, defaultdict(int): no keys.
EmptyHistogram == [c \in {} |-> 0]

\* coverage[cell] of a defaultdict(int) read without inserting.
Count(cov, c) == IF c \in DOMAIN cov THEN cov[c] ELSE 0

\* A variant of Increment that assigns: coverage[cell] = 1.
Increment_Assign(cov, c) ==
   [k \in DOMAIN cov \cup {c} |-> IF k = c THEN 1 ELSE cov[k]]

\* coverage[cell] += 1 on a defaultdict(int).
Increment(cov, c) ==
   [k \in DOMAIN cov \cup {c} |-> IF k = c THEN Count(cov, c) + 1 ELSE cov[k]]

\* The lines fd.write produces for coverage.items(): f"{cell},{cov}\n", one
\* a key. A file is the bag of its lines (line -> number of occurrences).
Lines(cov) == [l \in {<<c, cov[c]>> : c \in DOMAIN cov} |-> 1]

\* The state a fresh invocation with sys.argv[1] = p is in when it reaches
\* line 276 (the catalogue is loaded and filtered, coverage is empty).
Fresh(p) ==
   /\ process = p
   /\ pc = "idle"
   /\ i = 0
   /\ time = 0
   /\ satIdx = 1
   /\ coverage_set = {}
   /\ pending = {}
   /\ coverage = EmptyHistogram
   /\ stdout = << >>
   /\ error = "none"
   /\ times = << >>
   /\ unions = << >>
   /\ stepBase = EmptyHistogram

Init ==
   /\ op_sats \in SatLists
   /\ \E p \in Processes : Fresh(p)
   /\ files = [p \in {} |-> 0]
   /\ merged = EmptyHistogram
   /\ mergedFrom = {}
   /\ windows = [p \in {} |-> << >>]

\* ------------------------------------------------------ accumulation loop

\* A variant of START_TIME whose partitions overlap by a minute.
START_TIME_Overlapping == process * (TIME_PER_PROCESS - 1)

\* START_TIME = process * TIME_PER_PROCESS
START_TIME == process * TIME_PER_PROCESS

\* A variant of StepTime that counts the steps from 1.
StepTime_FromOne(k) == process * TIME_PER_PROCESS + k + 1

\* The minute of step k: the argument START_TIME+i of ts.utc.
StepTime(k) == START_TIME + k

\* A variant of LoopDone that leaves the loop one step early.
LoopDone_OneShort(k) == k >= TIME_PER_PROCESS - 1

\* range(TIME_PER_PROCESS) is exhausted at index k.
LoopDone(k) == k >= TIME_PER_PROCESS

\* Lines 243-276: the satellites are loaded and filtered and their numbers
\* printed, the sub-point of STARLINK-1284 is looked up (a KeyError when the
\* operational satellites have none of that name) and its cap angle
\* computed, and the for loop is entered.
Start ==
   /\ pc = "idle"
   /\ stdout' = stdout \o << <<"Loaded", Len(Catalogue), 0>>,
                              <<"Filtered", Len(op_sats), 0>> >>
   /\ LET named == {s \in 1..Len(op_sats) : op_sats[s].name = "STARLINK-1284"}
          ex    == IF named = {} THEN "KeyError"
                   ELSE CapAngleRaises(op_sats[CHOOSE s \in named : TRUE].alt,
                                       TERM_ANGLE)
      IN  IF ex # "none"
          THEN pc' = "aborted" /\ error' = ex
          ELSE /\ pc' = IF LoopDone(0) THEN "write" ELSE "step"
               /\ error' = error
   /\ UNCHANGED << op_sats, process, i, time, satIdx, coverage_set, pending,
                   coverage, files, times, unions, stepBase, merged,
                   mergedFrom, windows >>

\* Lines 277-281: the step's time, the progress line every 30 steps, the
\* sub-points, an empty coverage_set.
BeginStep ==
   /\ pc = "step"
   /\ time' = StepTime(i)
   /\ times' = Append(times, time')
   /\ stdout' = IF i % 30 = 0 THEN Append(stdout, <<"utc_iso", time', 0>>)
                ELSE stdout
   /\ satIdx' = 1
   /\ coverage_set' = {}
   /\ stepBase' = coverage
   /\ IF Len(op_sats) = 0
      THEN pc' = "accumulate" /\ unions' = Append(unions, {})
      ELSE pc' = "sats" /\ unions' = unions
   /\ pending' = {}
   /\ UNCHANGED << op_sats, process, i, coverage, files, error, merged,
                   mergedFrom, windows >>

\* coverage[cell] += 1 for every cell of a set.
RECURSIVE IncrementAll(_, _)
IncrementAll(cov, S) ==
   IF S = {} THEN cov
   ELSE LET c == CHOOSE x \in S : TRUE
        IN  IncrementAll(Increment(cov, c), S \ {c})

\* A variant of RasterizeSat that accumulates inside the satellite loop:
\* every satellite's cells are counted, a cell two satellites cover twice.
RasterizeSat_PerSatellite ==
   /\ pc = "sats"
   /\ LET r == Rasterize(op_sats[satIdx], time)
      IN  /\ stdout' = stdout \o r.out
          /\ IF r.raised # "none"
             THEN /\ pc' = "aborted"
                  /\ error' = r.raised
                  /\ UNCHANGED << satIdx, coverage_set, coverage, unions >>
             ELSE /\ coverage_set' = coverage_set \cup r.cells
                  /\ coverage' = IncrementAll(coverage, r.cells)
                  /\ satIdx' = satIdx + 1
                  /\ error' = error
                  /\ IF satIdx = Len(op_sats)
                     THEN /\ pc' = "accumulate"
                          /\ unions' = Append(unions, coverage_set')
                     ELSE UNCHANGED << pc, unions >>
   /\ pending' = {}
   /\ UNCHANGED << op_sats, process, i, time, files, times, stepBase, merged,
                   mergedFrom, windows >>

\* A variant of RasterizeSat that streams: a cell is counted the moment the
\* first satellite of the step covers it, before the step's union is known.
RasterizeSat_Streaming ==
   /\ pc = "sats"
   /\ LET r == Rasterize(op_sats[satIdx], time)
      IN  /\ stdout' = stdout \o r.out
          /\ IF r.raised # "none"
             THEN /\ pc' = "aborted"
                  /\ error' = r.raised
                  /\ UNCHANGED << satIdx, coverage_set, coverage, unions >>
             ELSE /\ coverage_set' = coverage_set \cup r.cells
                  /\ coverage' = IncrementAll(coverage, r.cells \ coverage_set)
                  /\ satIdx' = satIdx + 1
                  /\ error' = error
                  /\ IF satIdx = Len(op_sats)
                     THEN /\ pc' = "accumulate"
                          /\ unions' = Append(unions, coverage_set')
                     ELSE UNCHANGED << pc, unions >>
   /\ pending' = {}
   /\ UNCHANGED << op_sats, process, i, time, files, times, stepBase, merged,
                   mergedFrom, windows >>

\* Lines 282-289 for the next satellite: the cap angle, the rasterization,
\* the discarded Exception("empty region returned"), the cells added to
\* coverage_set. An exception that reaches the loop ends the run. After the
\* last satellite line 290 starts to iterate over coverage_set.
RasterizeSat ==
   /\ pc = "sats"
   /\ LET r == Rasterize(op_sats[satIdx], time)
      IN  /\ stdout' = stdout \o r.out
          /\ IF r.raised # "none"
             THEN /\ pc' = "aborted"
                  /\ error' = r.raised
                  /\ UNCHANGED << satIdx, coverage_set, pending, unions >>
             ELSE /\ coverage_set' = coverage_set \cup r.cells
                  /\ satIdx' = satIdx + 1
                  /\ error' = error
                  /\ IF satIdx = Len(op_sats)
                     THEN /\ pc' = "accumulate"
                          /\ pending' = coverage_set'
                          /\ unions' = Append(unions, coverage_set')
                     ELSE UNCHANGED << pc, pending, unions >>
   /\ UNCHANGED << op_sats, process, i, time, coverage, files, times,
                   stepBase, merged, mergedFrom, windows >>

\* Lines 290-291, one iteration: a set is iterated in no fixed order.
AccumulateCell ==
   /\ pc = "accumulate"
   /\ \E cell \in pending :
         /\ coverage' = Increment(coverage, cell)
         /\ pending' = pending \ {cell}
   /\ UNCHANGED << op_sats, process, pc, i, time, satIdx, coverage_set, files,
                   stdout, error, times, unions, stepBase, merged, mergedFrom,
                   windows >>

\* The end of the loop body: the next index, or the loop's end.
EndStep ==
   /\ pc = "accumulate"
   /\ pending = {}
   /\ i' = i + 1
   /\ pc' = IF LoopDone(i + 1) THEN "write" ELSE "step"
   /\ UNCHANGED << op_sats, process, time, satIdx, coverage_set, pending,
                   coverage, files, stdout, error, times, unions, stepBase,
                   merged, mergedFrom, windows >>

\* Lines 293-295: the histogram file h3_4_cov_<process>.txt is opened for
\* writing (truncated) and gets a line a key.
WriteFile ==
   /\ pc = "write"
   /\ files' = [p \in DOMAIN files \cup {process} |->
                  IF p = process THEN Lines(coverage) ELSE files[p]]
   /\ pc' = "done"
   /\ UNCHANGED << op_sats, process, i, time, satIdx, coverage_set, pending,
                   coverage, stdout, error, times, unions, stepBase, merged,
                   mergedFrom, windows >>

Next ==
   \/ Start
   \/ BeginStep
   \/ RasterizeSat
   \/ AccumulateCell
   \/ EndStep
   \/ WriteFile

Spec == Init /\ [][Next]_vars

\* ------------------------------------------------- the four partition runs

\* The sum of the counts the lines of a file give cell c.
RECURSIVE LineSum(_, _, _)
LineSum(lines, S, c) ==
   IF S = {} THEN 0
   ELSE LET l == CHOOSE x \in S : TRUE
        IN  (IF l[1] = c THEN l[2] * lines[l] ELSE 0)
            + LineSum(lines, S \ {l}, c)

\* The external merge step: a histogram plus a partition's file, cell by cell.
MergeLines(hist, lines) ==
   [c \in DOMAIN hist \cup {l[1] : l \in DOMAIN lines} |->
      Count(hist, c) + LineSum(lines, DOMAIN lines, c)]

\* The merge step reads the file of the run that has just finished.
MergeFile ==
   /\ pc = "done"
   /\ process \notin mergedFrom
   /\ merged' = MergeLines(merged, files[process])
   /\ mergedFrom' = mergedFrom \cup {process}
   /\ windows' = [p \in DOMAIN windows \cup {process} |->
                    IF p = process THEN times ELSE windows[p]]
   /\ UNCHANGED << op_sats, process, pc, i, time, satIdx, coverage_set,
                   pending, coverage, files, stdout, error, times, unions,
                   stepBase >>

\* The launcher starts the script for a partition not yet run. The runs
\* share nothing but the directory of their files, so they are taken one
\* after the other, in any order.
Launch(p) ==
   /\ pc = "done"
   /\ process \in mergedFrom
   /\ p \notin mergedFrom
   /\ process' = p
   /\ pc' = "idle"
   /\ i' = 0
   /\ time' = 0
   /\ satIdx' = 1
   /\ coverage_set' = {}
   /\ pending' = {}
   /\ coverage' = EmptyHistogram
   /\ stdout' = << >>
   /\ error' = "none"
   /\ times' = << >>
   /\ unions' = << >>
   /\ stepBase' = EmptyHistogram
   /\ UNCHANGED << op_sats, files, merged, mergedFrom, windows >>

NextMerge ==
   \/ Next
   \/ MergeFile
   \/ \E p \in Processes : Launch(p)

\* The four partitions of one day over the first MaxSats satellites of the
\* catalogue.
InitMerge == Init /\ op_sats = SubSeq(Catalogue, 1, MaxSats)

MergeSpec == InitMerge /\ [][NextMerge]_vars

\* ------------------------------------------------------------- properties

\* The union of the cell sets all satellites rasterize to at a minute.
StepUnion(sats, minute) ==
   UNION {Rasterize(sats[s], minute).cells : s \in 1..Len(sats)}

\* The pairs <<minute, union of that minute>> of a set of minutes.
CoveredSteps(sats, minutes) == {<<m, StepUnion(sats, m)>> : m \in minutes}

\* The number of those minutes in which cell c is covered.
TimesCovered(S, c) == Cardinality({p \in S : c \in p[2]})

\* The minutes of partition p.
PartitionMinutes(p) == (p * 360)..(p * 360 + 359)

\* C1: after a partition run of N steps every cell's final count is the
\* number of those steps in which at least one satellite's rasterized cell
\* set contained the cell (N for a cell covered in every step, one a step
\* however many satellites cover it).
C1_FinalHistogram ==
   pc \in {"write", "done"} =>
      LET S == CoveredSteps(op_sats, PartitionMinutes(process))
      IN  /\ DOMAIN coverage \subseteq Cells
          /\ \A c \in Cells : Count(coverage, c) = TimesCovered(S, c)

\* A finished run in which a cell was covered in every step and, in some
\* step, by two satellites at once.
C1_Witness ==
   /\ pc = "done"
   /\ Len(op_sats) >= 2
   /\ \E c \in DOMAIN coverage :
         /\ coverage[c] = 360
         /\ \E k \in 1..Len(times) :
               \A s \in 1..Len(op_sats) :
                  c \in Rasterize(op_sats[s], times[k]).cells

\* C2: in every state a cell's count is at most 1 above its count when the
\* current step began, and after k completed steps it lies in 0..k.
C2_AtMostOnePerStep ==
   \A c \in Cells :
      /\ Count(coverage, c) - Count(stepBase, c) \in {0, 1}
      /\ Count(stepBase, c) \in 0..i
      /\ pc \in {"idle", "step", "write", "done"} => Count(coverage, c) \in 0..i

\* A step has been accumulated in which two satellites covered the same
\* cell, and the cell's count went up by one.
C2_Witness ==
   /\ pc = "accumulate"
   /\ pending = {}
   /\ Len(op_sats) >= 2
   /\ \E c \in coverage_set :
         /\ \A s \in 1..Len(op_sats) :
               c \in Rasterize(op_sats[s], time).cells
         /\ Count(coverage, c) = Count(stepBase, c) + 1
         /\ Count(stepBase, c) > 0

\* C9: while the satellites of a step are rasterized the histogram is the
\* one the step began with; it is accumulated from the union of all the
\* step's satellites; at a step boundary after k steps it is the
\* accumulation of exactly the first k unions.
C9_StepBoundaryConsistent ==
   /\ pc = "sats" => coverage = stepBase
   /\ pc = "accumulate" =>
         /\ unions[Len(unions)] = coverage_set
         /\ pending = coverage_set =>
               coverage_set = StepUnion(op_sats, time)
         /\ \A c \in Cells :
               Count(coverage, c) = Count(stepBase, c)
                  + (IF c \in coverage_set \ pending THEN 1 ELSE 0)
   /\ pc \in {"step", "write", "done"} =>
         /\ Len(unions) = i
         /\ \A c \in Cells :
               Count(coverage, c) = Cardinality({k \in 1..i : c \in unions[k]})

\* A step boundary in the middle of a run of two satellites, both of which
\* contributed cells to the histogram.
C9_Witness ==
   /\ pc = "step"
   /\ i = 180
   /\ Len(op_sats) >= 2
   /\ Cardinality(DOMAIN coverage) > 2

\* The lines of a file say, for every key of a histogram, the key and its
\* count, once.
OneLinePerKey(lines, cov) ==
   /\ DOMAIN lines = {<<c, cov[c]>> : c \in DOMAIN cov}
   /\ \A l \in DOMAIN lines : lines[l] = 1
   /\ Cardinality(DOMAIN lines) = Cardinality(DOMAIN cov)

\* A step of the driver along Idle -> Running(0) -> ... -> Running(359) ->
\* Done, or into the stop an uncaught exception causes.
DriverStep ==
   \/ pc = "idle" /\ pc' = "step" /\ i = 0 /\ i' = 0
   \/ pc = "idle" /\ pc' = "aborted" /\ i' = i
   \/ pc = "step" /\ pc' = "sats" /\ i' = i
   \/ pc = "sats" /\ pc' \in {"sats", "accumulate", "aborted"} /\ i' = i
   \/ pc = "accumulate" /\ pc' = "accumulate" /\ i' = i
   \/ pc = "accumulate" /\ i < 359 /\ pc' = "step" /\ i' = i + 1
   \/ pc = "accumulate" /\ i = 359 /\ pc' = "write" /\ i' = 360
   \/ pc = "write" /\ pc' = "done" /\ i' = i

\* How far a run is: it grows with every step of the run and is at most
\* Progress of Done, so a run ends.
Progress ==
   i * 1000 +
   (CASE pc = "idle" -> 0
      [] pc = "step" -> 1
      [] pc = "sats" -> 1 + satIdx
      [] pc = "accumulate" ->
            500 + Cardinality(coverage_set) - Cardinality(pending)
      [] pc = "write" -> 1
      [] pc = "done" -> 2
      [] pc = "aborted" -> 999)

\* C10: the driver moves Idle -> Running(0) -> ... -> Running(359) -> Done
\* and the run ends (it can always take a step until it is done or stopped,
\* and every step takes it further); the partition's histogram file is
\* written once, in the step into Done after all 360 steps were
\* accumulated, with one line <cell>,<count> for every key of the
\* histogram; the run takes no step after it, so the histogram is not
\* mutated once persisted; a run that stops before the last step leaves no
\* file.
C10_PersistOnceAtEnd ==
   /\ [](/\ process \in DOMAIN files <=> pc = "done"
         /\ DOMAIN files \subseteq {process}
         /\ pc = "done" => /\ i = 360
                           /\ Len(unions) = 360
                           /\ OneLinePerKey(files[process], coverage)
                           /\ ~ENABLED Next
         /\ pc = "aborted" => i < 360 /\ files = [p \in {} |-> 0]
         /\ pc \in {"idle", "step", "accumulate", "write"} =>
               ENABLED (Start \/ BeginStep \/ AccumulateCell \/ EndStep
                        \/ WriteFile)
         /\ pc = "sats" => satIdx \in 1..Len(op_sats)
         /\ Progress <= 360 * 1000 + 2)
   /\ [][/\ DriverStep
         /\ Progress' > Progress
         /\ files' # files => pc = "write" /\ pc' = "done" /\ files = [p \in {} |-> 0]
         /\ pc = "done" => coverage' = coverage /\ files' = files]_vars

\* A run that reached Done and left a file of several lines.
C10_Witness ==
   /\ pc = "done"
   /\ process \in DOMAIN files
   /\ Cardinality(DOMAIN files[process]) > 2

\* C4: the minutes a run with partition index p simulates are, in order,
\* p*360, p*360+1, ..., each once, and after the loop exactly
\* [p*360, p*360+360); over the indices 0..3 these ranges are pairwise
\* disjoint and their union is the 1440 minute window.
C4_PartitionWindows ==
   /\ times = [k \in 1..Len(times) |-> process * 360 + k - 1]
   /\ pc \in {"write", "done"} =>
         /\ Len(times) = 360
         /\ Range(times) = PartitionMinutes(process)
   /\ \A p \in DOMAIN windows :
         /\ Len(windows[p]) = 360
         /\ Range(windows[p]) = PartitionMinutes(p)
   /\ mergedFrom = 0..3 =>
         /\ DOMAIN windows = 0..3
         /\ \A p, q \in 0..3 :
               p # q => Range(windows[p]) \cap Range(windows[q]) = {}
         /\ UNION {Range(windows[p]) : p \in 0..3} = 0..1439

\* All four partitions have run and been merged.
C4_Witness ==
   /\ mergedFrom = 0..3
   /\ DOMAIN windows = 0..3
   /\ pc = "done"

\* C3: the cell by cell sum of the histograms of the partitions merged so
\* far is the histogram of the minutes of those partitions, whatever the
\* order they were merged in; with all of 0..3 merged it is the histogram
\* of one run over the whole 1440 minute window.
C3_MergeEqualsFullWindow ==
   pc = "done" /\ process \in mergedFrom =>
      LET minutes == IF mergedFrom = 0..3 THEN 0..1439
                     ELSE UNION {PartitionMinutes(q) : q \in mergedFrom}
          S == CoveredSteps(op_sats, minutes)
      IN  /\ DOMAIN merged \subseteq Cells
          /\ \A c \in Cells : Count(merged, c) = TimesCovered(S, c)

\* All four histograms are summed, and some count is above what a single
\* partition can contribute.
C3_Witness ==
   /\ mergedFrom = 0..3
   /\ \E c \in DOMAIN merged : merged[c] > 360
   /\ \E c \in DOMAIN merged : merged[c] < 360

\* The rasterization of the satellite the loop is at.
Current == Rasterize(op_sats[satIdx], time)

\* C5: when the rasterization of a satellite's footprint fails, no
\* exception reaches the accumulation loop: the satellite contributes the
\* empty set and the loop goes on to the next satellite.
C5_RasterFailureContained ==
   [][pc = "sats" /\ Current.cap /\ Current.failed =>
         /\ pc' # "aborted"
         /\ coverage_set' = coverage_set
         /\ satIdx' = satIdx + 1]_vars

\* C6: when the cap angle of a satellite has no value (asin's argument is
\* out of range) the satellite contributes nothing and the loop goes on to
\* the next satellite; the run is not aborted.
C6_DomainErrorContained ==
   [][pc = "sats" /\ ~Current.cap =>
         /\ pc' # "aborted"
         /\ coverage_set' = coverage_set
         /\ satIdx' = satIdx + 1]_vars

\* C7: a rasterization that did not fail and returned no cell prints a
\* warning.
C7_EmptyCoverageWarned ==
   [][/\ pc = "sats"
      /\ Current.cap
      /\ Current.raised = "none"
      /\ ~Current.failed
      /\ Current.cells = {}
      => Len(stdout') > Len(stdout)]_vars

\* The ring get_cell_ids_h3 propagates for the satellite the loop is at.
CurrentRing ==
   LET sp == subpoint(op_sats[satIdx], time)
   IN  propagate(sp.longitude, sp.latitude,
                 ArcMeters(calcCapAngle(sp.elevation, TERM_ANGLE)))

\* C8: for a closed ring with vertices on both sides of longitude 180 the
\* split keeps every vertex (those below 180 in the first ring, those above
\* 180 in the second, 360 subtracted), puts the point interpolated at 180
\* of every straddling edge into both rings, and closes both rings.
C8_SplitKeepsVertices ==
   pc = "sats" /\ Current.cap =>
      LET ring == CurrentRing
          n    == Len(ring)
          sp   == split_antimeridian_polygon(ring)
          A    == Range(sp.first)
          B    == Range(sp.second)
      IN  (/\ \E k \in 1..n : Lng(ring[k]) < 180
           /\ \E k \in 1..n : Lng(ring[k]) > 180)
          => /\ sp.raised = "none"
             /\ \A k \in 1..(n - 1) :
                   /\ Lng(ring[k]) < 180 => ring[k] \in A
                   /\ Lng(ring[k]) > 180 =>
                         <<Lng(ring[k]) - 360, Lat(ring[k])>> \in B
                   /\ (\/ Lng(ring[k]) < 180 /\ Lng(ring[k + 1]) > 180
                       \/ Lng(ring[k]) > 180 /\ Lng(ring[k + 1]) < 180)
                      => \E lat \in -90..90 :
                            <<180, lat>> \in A /\ <<-180, lat>> \in B
             /\ sp.first[1] = sp.first[Len(sp.first)]
             /\ sp.second[1] = sp.second[Len(sp.second)]

=============================================================================
